---- MODULE Spec2Model ----
(***************************************************************************)
(* ONVIFClient (onvif_client.py): a wrapper holding a camera proxy and     *)
(* three service handles.  One action per public method; the library and   *)
(* the device are the environment: every library call either returns or    *)
(* raises zeep's Fault or some other Exception.                            *)
(***************************************************************************)
EXTENDS Integers, Sequences, FiniteSets, TLC

VARIABLES host, port, username, password,      \* constructor arguments
          camera, media_service, ptz_service, device_service,
          devProfiles,   \* the device's media profile list (tokens)
          devCaps,       \* capability elements present in the device's response
          connects,      \* what each connect() so far returned, in order
          op, arg,       \* the last finished invocation and its profile_token
          calls,         \* library/device requests issued by that invocation
          ret, escaped,  \* what it returned; whether an exception escaped
          err, log,      \* the failure's cause; the log lines it wrote
          threads        \* concurrent callers: each one's position and locals

vars == <<host, port, username, password, camera, media_service, ptz_service,
          device_service, devProfiles, devCaps, connects, op, arg,
          calls, ret, escaped, err, log, threads>>

client == <<host, port, username, password, camera, media_service,
            ptz_service, device_service>>

device == <<devProfiles, devCaps>>

(* ---------------------------- bounds ----------------------------------- *)
MaxConnects == 2      \* connect() calls explored per instance

(* ---------------------------- values ----------------------------------- *)
Tokens == {"P1", "P2"}
NoToken == "None"                       \* profile_token = None

CapNames == {"Analytics", "Device", "Events", "Imaging", "Media", "PTZ"}

\* the elements a device may leave out of its capabilities response
OptionalCaps == {"Imaging", "PTZ"}

CapSets == {CapNames \ A : A \in SUBSET OptionalCaps}

\* a profile list: tokens are unique ids, in the device's order
ProfileLists ==
    {s \in UNION {[1..n -> Tokens] : n \in 0..Cardinality(Tokens)} :
        \A i, j \in DOMAIN s : i # j => s[i] # s[j]}

Configs ==
    {[host |-> "192.168.1.100", port |-> 80, username |-> "admin", password |-> "password"],
     [host |-> "10.0.0.2", port |-> 8080, username |-> "root", password |-> "admin"]}

Velocities == {<<0, 0, 0>>, <<1, -1, 0>>}

\* what a library call can do: return, raise zeep.exceptions.Fault, or raise
\* another Exception (transport failure, undecodable response)
Outcomes == {"ok", "Fault", "TransportError", "DecodeError"}

\* a call is issued only if the one before it returned: the outcome of a call
\* that is never issued is immaterial, and fixed to "ok"
After(prev) == IF prev = "ok" THEN Outcomes ELSE {"ok"}

\* GetProfiles is issued only to resolve an omitted profile_token
ForToken(tok) == IF tok = "None" THEN Outcomes ELSE {"ok"}

devInfo ==
    [Manufacturer |-> "Acme", Model |-> "Cam1", FirmwareVersion |-> "1.0",
     SerialNumber |-> "0001", HardwareId |-> "hw1"]

\* Python values
NoneV == [type |-> "NoneType", val |-> <<>>]
TrueV == [type |-> "bool", val |-> <<"True">>]
FalseV == [type |-> "bool", val |-> <<"False">>]
ListV(l) == [type |-> "list", val |-> l]
StrV(s) == [type |-> "str", val |-> s]
DictV(d) == [type |-> "dict", val |-> d]

\* bool(x) for the values tested with "not": None and [] are false
Truthy(v) == v.type # "NoneType" /\ ~(v.type = "list" /\ v.val = <<>>)

NoCamera == [id |-> 0, host |-> "", port |-> 0, username |-> "", password |-> ""]
NoHandle == [cam |-> 0, svc |-> "None"]
\* a missing "if not self.<service>" test
IsSet_Always(h) == TRUE

\* "if not self.<service>": a handle is true unless it is None
IsSet(h) == h # NoHandle

\* every ONVIFCamera(...) call builds a new object
nextId == Len(connects) + 1

\* the session state the caller has been told: connect() not yet called,
\* or what the most recent connect() returned
connState ==
    IF connects = <<>> THEN "Disconnected"
    ELSE IF connects[Len(connects)] = "True" THEN "Connected" ELSE "Failed"

ONVIFCamera(id, h, p, u, pw) ==
    [id |-> id, host |-> h, port |-> p, username |-> u, password |-> pw]

create_service(cam, svc) == [cam |-> cam.id, svc |-> svc]

\* one request: which library call, on which object, with which
\* ProfileToken and other request fields, what it did and (GetProfiles) the
\* list it returned
Call(req, on, token, body, outcome, resp) ==
    [req |-> req, on |-> on, token |-> token, body |-> body,
     outcome |-> outcome, resp |-> resp]

\* outcome of a try body: it returns a value or raises
Return(cs, v, e, lg) ==
    [calls |-> cs, status |-> "return", val |-> v, err |-> e, log |-> lg]
Raise(cs, exc, lg) ==
    [calls |-> cs, status |-> "raise", val |-> NoneV, err |-> exc, log |-> lg]

\* only "except Fault": any other exception leaves the method
ExceptFaultException_OnlyFault(r, failval, what) ==
    IF r.status = "raise" /\ r.err = "Fault"
    THEN [r EXCEPT !.status = "return", !.val = failval,
                   !.log = Append(r.log, "SOAP Fault while " \o what)]
    ELSE r

\* the Fault clause returning False where the method's failure value is None
ExceptFaultException_FaultFalse(r, failval, what) ==
    IF r.status = "raise"
    THEN [r EXCEPT !.status = "return",
                   !.val = IF r.err = "Fault" THEN FalseV ELSE failval,
                   !.log = Append(r.log, IF r.err = "Fault"
                                         THEN "SOAP Fault while " \o what
                                         ELSE "Error " \o what)]
    ELSE r

\* except Fault as e: ... return failval / except Exception as e: ... return failval
ExceptFaultException(r, failval, what) ==
    IF r.status = "raise"
    THEN [r EXCEPT !.status = "return", !.val = failval,
                   !.log = Append(r.log, IF r.err = "Fault"
                                         THEN "SOAP Fault while " \o what
                                         ELSE "Error " \o what)]
    ELSE r

\* except Exception as e: ... return False
ExceptException(r, failval, msg) ==
    IF r.status = "raise"
    THEN [r EXCEPT !.status = "return", !.val = failval, !.log = Append(r.log, msg)]
    ELSE r

\* the callers of the concurrent specification
Threads == {"A", "B"}

\* a caller that is in no method
IdleThread ==
    [pc |-> "idle", op |-> "none", arg |-> NoToken, profiles |-> NoneV,
     token |-> NoToken, calls |-> <<>>, log |-> <<>>, ret |-> NoneV, err |-> "none"]

Init ==
    /\ \E c \in Configs :
         /\ host = c.host
         /\ port = c.port
         /\ username = c.username
         /\ password = c.password
    /\ camera = NoCamera
    /\ media_service = NoHandle
    /\ ptz_service = NoHandle
    /\ device_service = NoHandle
    /\ devProfiles \in ProfileLists
    /\ devCaps \in CapSets
    /\ connects = <<>>
    /\ op = "__init__"
    /\ arg = NoToken
    /\ calls = <<>>
    /\ ret = NoneV
    /\ escaped = FALSE
    /\ err = "none"
    /\ log = <<>>
    /\ threads = [t \in Threads |-> IdleThread]

\* the invocation's observable result
Finish(name, tok, r) ==
    /\ op' = name
    /\ arg' = tok
    /\ calls' = r.calls
    /\ escaped' = (r.status = "raise")
    /\ ret' = r.val
    /\ err' = r.err
    /\ log' = r.log

(* ------------------------------ connect -------------------------------- *)
\* try: self.ptz_service = self.camera.create_ptz_service()
\* except Exception: self.ptz_service = None
connect_ptz(cam, oP) ==
    IF oP = "ok" THEN create_service(cam, "ptz") ELSE NoHandle

\* The try body of connect(): the fields it assigns before it returns or
\* raises.  oC, oD, oM, oP: what the constructor and the three create_*
\* calls do.
connect_body(oC, oD, oM, oP) ==
    LET cam == ONVIFCamera(nextId, host, port, username, password)
        onCam == [cam |-> cam.id, svc |-> "camera"]
        cC == Call("ONVIFCamera", NoHandle, NoToken, <<>>, oC, <<>>)
        cD == Call("create_devicemgmt_service", onCam, NoToken, <<>>, oD, <<>>)
        cM == Call("create_media_service", onCam, NoToken, <<>>, oM, <<>>)
        cP == Call("create_ptz_service", onCam, NoToken, <<>>, oP, <<>>)
        old == [camera |-> camera, device_service |-> device_service,
                media_service |-> media_service, ptz_service |-> ptz_service]
        lg0 == <<"Connecting to camera">>
    IN  IF oC # "ok"
        THEN [st |-> old, r |-> Raise(<<cC>>, oC, lg0)]
        ELSE IF oD # "ok"
        THEN [st |-> [old EXCEPT !.camera = cam],
              r |-> Raise(<<cC, cD>>, oD, lg0)]
        ELSE IF oM # "ok"
        THEN [st |-> [old EXCEPT !.camera = cam,
                                 !.device_service = create_service(cam, "devicemgmt")],
              r |-> Raise(<<cC, cD, cM>>, oM, lg0)]
        ELSE [st |-> [camera |-> cam,
                      device_service |-> create_service(cam, "devicemgmt"),
                      media_service |-> create_service(cam, "media"),
                      ptz_service |-> connect_ptz(cam, oP)],
              r |-> Return(<<cC, cD, cM, cP>>, TrueV, "none",
                           IF oP = "ok"
                           THEN lg0 \o <<"Successfully connected to camera">>
                           ELSE lg0 \o <<"PTZ service not available",
                                         "Successfully connected to camera">>)]

\* connect() with the PTZ creation outside its inner try
connect_run_PtzFatal(oC, oD, oM, oP) ==
    LET b == connect_body(oC, oD, oM, oP)
    IN  [st |-> b.st,
         r |-> ExceptException(IF oP # "ok" THEN Raise(b.r.calls, oP, b.r.log) ELSE b.r,
                               FalseV, "Failed to connect to camera")]

\* connect() that creates the device service only when none is held yet
connect_run_KeepDevice(oC, oD, oM, oP) ==
    LET b == connect_body(oC, oD, oM, oP)
    IN  [st |-> [b.st EXCEPT !.device_service =
                    IF device_service # NoHandle THEN device_service ELSE @],
         r |-> ExceptException(b.r, FalseV, "Failed to connect to camera")]

connect_run(oC, oD, oM, oP) ==
    LET b == connect_body(oC, oD, oM, oP)
    IN  [st |-> b.st,
         r |-> ExceptException(b.r, FalseV, "Failed to connect to camera")]

connect ==
    /\ nextId <= MaxConnects
    /\ \E oC \in Outcomes : \E oD \in After(oC) : \E oM \in After(oD) :
       \E oP \in After(oM) :
         LET c == connect_run(oC, oD, oM, oP)
         IN  /\ camera' = c.st.camera
             /\ device_service' = c.st.device_service
             /\ media_service' = c.st.media_service
             /\ ptz_service' = c.st.ptz_service
             /\ connects' = Append(connects, IF c.r.status = "return" /\ c.r.val = TrueV
                                              THEN "True" ELSE "False")
             /\ Finish("connect", NoToken, c.r)
    /\ UNCHANGED <<host, port, username, password, device, threads>>

(* ------------------------- device and media getters -------------------- *)
get_device_information_body(o) ==
    IF ~IsSet(device_service)
    THEN Return(<<>>, NoneV, "ServiceUnavailable", <<"Device service not initialized">>)
    ELSE LET c == Call("GetDeviceInformation", device_service, NoToken, <<>>, o, <<>>)
         IN  IF o # "ok"
             THEN Raise(<<c>>, o, <<>>)
             ELSE Return(<<c>>,
                         DictV([Manufacturer |-> devInfo.Manufacturer,
                                Model |-> devInfo.Model,
                                FirmwareVersion |-> devInfo.FirmwareVersion,
                                SerialNumber |-> devInfo.SerialNumber,
                                HardwareId |-> devInfo.HardwareId]),
                         "none", <<"Device info retrieved">>)

get_device_information_run(o) ==
    ExceptFaultException(get_device_information_body(o), NoneV, "getting device info")

get_device_information ==
    /\ \E o \in Outcomes :
         Finish("get_device_information", NoToken, get_device_information_run(o))
    /\ UNCHANGED <<client, device, connects, threads>>

get_profiles_body(o) ==
    IF ~IsSet(media_service)
    THEN Return(<<>>, NoneV, "ServiceUnavailable", <<"Media service not initialized">>)
    ELSE LET c == Call("GetProfiles", media_service, NoToken, <<>>, o,
                       IF o = "ok" THEN devProfiles ELSE <<>>)
         IN  IF o # "ok"
             THEN Raise(<<c>>, o, <<>>)
             ELSE Return(<<c>>, ListV(devProfiles), "none", <<"Retrieved media profiles">>)

\* get_profiles() that issues GetProfiles a second time when the first raised
get_profiles_run_Retry(o) ==
    LET r == ExceptFaultException(get_profiles_body(o), NoneV, "getting profiles")
    IN  IF r.err \in {"Fault", "TransportError", "DecodeError"}
        THEN [r EXCEPT !.calls = r.calls \o r.calls]
        ELSE r

get_profiles_run(o) ==
    ExceptFaultException(get_profiles_body(o), NoneV, "getting profiles")

get_profiles ==
    /\ \E o \in Outcomes : Finish("get_profiles", NoToken, get_profiles_run(o))
    /\ UNCHANGED <<client, device, connects, threads>>

\* profile_token = profiles[-1].token
FirstToken_Last(profiles) == profiles.val[Len(profiles.val)]

\* profile_token = profiles[0].token
FirstToken(profiles) == profiles.val[1]

\* "if profile_token is None: profiles = self.get_profiles(); if not profiles:
\* return <failval>; profile_token = profiles[0].token".  found = FALSE is
\* the early return.
resolve_token(tok, o, failval) ==
    IF tok # NoToken
    THEN [found |-> TRUE, token |-> tok, calls |-> <<>>, log |-> <<>>,
          early |-> Return(<<>>, failval, "none", <<>>)]
    ELSE LET p == get_profiles_run(o)
         IN  IF ~Truthy(p.val)
             THEN [found |-> FALSE, token |-> NoToken, calls |-> p.calls, log |-> p.log,
                   early |-> Return(p.calls, failval,
                                    IF p.err = "none" THEN "NoProfiles" ELSE p.err,
                                    Append(p.log, "No profiles available"))]
             ELSE [found |-> TRUE, token |-> FirstToken(p.val), calls |-> p.calls,
                   log |-> p.log, early |-> Return(p.calls, failval, "none", p.log)]

\* the Uri the device answers for a profile
StreamUri(t) == "rtsp://camera/" \o t
SnapshotUri(t) == "http://camera/snapshot/" \o t

get_stream_uri_body(tok, o1, o2) ==
    IF ~IsSet(media_service)
    THEN Return(<<>>, NoneV, "ServiceUnavailable", <<"Media service not initialized">>)
    ELSE LET t == resolve_token(tok, o1, NoneV)
         IN  IF ~t.found
             THEN t.early
             ELSE LET c == Call("GetStreamUri", media_service, t.token, <<"RTP-Unicast", "RTSP">>, o2, <<>>)
                  IN  IF o2 # "ok"
                      THEN Raise(Append(t.calls, c), o2, t.log)
                      ELSE Return(Append(t.calls, c), StrV(StreamUri(t.token)), "none",
                                  Append(t.log, "Stream URI retrieved"))

get_stream_uri_run(tok, o1, o2) ==
    ExceptFaultException(get_stream_uri_body(tok, o1, o2), NoneV, "getting stream URI")

get_stream_uri ==
    /\ \E tok \in Tokens \cup {NoToken} : \E o1 \in ForToken(tok) :
       \E o2 \in After(o1) :
         Finish("get_stream_uri", tok, get_stream_uri_run(tok, o1, o2))
    /\ UNCHANGED <<client, device, connects, threads>>

get_snapshot_uri_body(tok, o1, o2) ==
    IF ~IsSet(media_service)
    THEN Return(<<>>, NoneV, "ServiceUnavailable", <<"Media service not initialized">>)
    ELSE LET t == resolve_token(tok, o1, NoneV)
         IN  IF ~t.found
             THEN t.early
             ELSE LET c == Call("GetSnapshotUri", media_service, t.token, <<>>, o2, <<>>)
                  IN  IF o2 # "ok"
                      THEN Raise(Append(t.calls, c), o2, t.log)
                      ELSE Return(Append(t.calls, c), StrV(SnapshotUri(t.token)), "none",
                                  Append(t.log, "Snapshot URI retrieved"))

get_snapshot_uri_run(tok, o1, o2) ==
    ExceptFaultException(get_snapshot_uri_body(tok, o1, o2), NoneV, "getting snapshot URI")

get_snapshot_uri ==
    /\ \E tok \in Tokens \cup {NoToken} : \E o1 \in ForToken(tok) :
       \E o2 \in After(o1) :
         Finish("get_snapshot_uri", tok, get_snapshot_uri_run(tok, o1, o2))
    /\ UNCHANGED <<client, device, connects, threads>>

(* --------------------------------- PTZ --------------------------------- *)
move_ptz_body(pan, tilt, zoom, tok, o1, o2) ==
    IF ~IsSet(ptz_service)
    THEN Return(<<>>, FalseV, "ServiceUnavailable", <<"PTZ service not available">>)
    ELSE LET t == resolve_token(tok, o1, FalseV)
         IN  IF ~t.found
             THEN t.early
             ELSE LET c == Call("ContinuousMove", ptz_service, t.token,
                                <<pan, tilt, zoom>>, o2, <<>>)
                  IN  IF o2 # "ok"
                      THEN Raise(Append(t.calls, c), o2, t.log)
                      ELSE Return(Append(t.calls, c), TrueV, "none",
                                  Append(t.log, "PTZ moved"))

move_ptz_run(pan, tilt, zoom, tok, o1, o2) ==
    ExceptFaultException(move_ptz_body(pan, tilt, zoom, tok, o1, o2), FalseV, "moving PTZ")

\* move_ptz() that drops the PTZ handle when the move fails
move_ptz_DropsHandle ==
    /\ \E v \in Velocities, tok \in Tokens \cup {NoToken} :
       \E o1 \in ForToken(tok) : \E o2 \in After(o1) :
         LET r == move_ptz_run(v[1], v[2], v[3], tok, o1, o2)
         IN  /\ Finish("move_ptz", tok, r)
             /\ ptz_service' = IF r.val = FalseV THEN NoHandle ELSE ptz_service
    /\ UNCHANGED <<host, port, username, password, camera, media_service,
                   device_service, device, connects, threads>>

move_ptz ==
    /\ \E v \in Velocities, tok \in Tokens \cup {NoToken} :
       \E o1 \in ForToken(tok) : \E o2 \in After(o1) :
         Finish("move_ptz", tok, move_ptz_run(v[1], v[2], v[3], tok, o1, o2))
    /\ UNCHANGED <<client, device, connects, threads>>

stop_ptz_body(tok, o1, o2) ==
    IF ~IsSet(ptz_service)
    THEN Return(<<>>, FalseV, "ServiceUnavailable", <<"PTZ service not available">>)
    ELSE LET t == resolve_token(tok, o1, FalseV)
         IN  IF ~t.found
             THEN t.early
             ELSE LET c == Call("Stop", ptz_service, t.token,
                                <<"PanTilt", "Zoom">>, o2, <<>>)
                  IN  IF o2 # "ok"
                      THEN Raise(Append(t.calls, c), o2, t.log)
                      ELSE Return(Append(t.calls, c), TrueV, "none",
                                  Append(t.log, "PTZ stopped"))

stop_ptz_run(tok, o1, o2) ==
    ExceptFaultException(stop_ptz_body(tok, o1, o2), FalseV, "stopping PTZ")

\* stop_ptz() that forgets the camera proxy once the stop went through
stop_ptz_ClearsCamera ==
    /\ \E tok \in Tokens \cup {NoToken} : \E o1 \in ForToken(tok) :
       \E o2 \in After(o1) :
         LET r == stop_ptz_run(tok, o1, o2)
         IN  /\ Finish("stop_ptz", tok, r)
             /\ camera' = IF r.val = TrueV THEN NoCamera ELSE camera
    /\ UNCHANGED <<host, port, username, password, media_service, ptz_service,
                   device_service, device, connects, threads>>

stop_ptz ==
    /\ \E tok \in Tokens \cup {NoToken} : \E o1 \in ForToken(tok) :
       \E o2 \in After(o1) :
         Finish("stop_ptz", tok, stop_ptz_run(tok, o1, o2))
    /\ UNCHANGED <<client, device, connects, threads>>

(* ----------------------------- capabilities ---------------------------- *)
\* the 'PTZ' entry reading capabilities.Media
caps_dict_PtzFromMedia(present) ==
    [k \in CapNames |-> IF k = "PTZ" THEN "Media" \in present ELSE k \in present]

\* 'X': capabilities.X is not None, for the six keys
caps_dict(present) == [k \in CapNames |-> k \in present]

get_capabilities_body(o) ==
    IF ~IsSet(device_service)
    THEN Return(<<>>, NoneV, "ServiceUnavailable", <<"Device service not initialized">>)
    ELSE LET c == Call("GetCapabilities", device_service, NoToken, <<>>, o, <<>>)
         IN  IF o # "ok"
             THEN Raise(<<c>>, o, <<>>)
             ELSE Return(<<c>>, DictV(caps_dict(devCaps)), "none",
                         <<"Device capabilities retrieved">>)

get_capabilities_run(o) ==
    ExceptFaultException(get_capabilities_body(o), NoneV, "getting capabilities")

get_capabilities ==
    /\ \E o \in Outcomes : Finish("get_capabilities", NoToken, get_capabilities_run(o))
    /\ UNCHANGED <<client, device, connects, threads>>

(* ------------------------------ the device ----------------------------- *)
\* the camera's profile list is device state: it can change between calls
DeviceChangesProfiles ==
    /\ \E l \in ProfileLists : l # devProfiles /\ devProfiles' = l
    /\ UNCHANGED <<client, devCaps, connects, op, arg, calls, ret,
                   escaped, err, log, threads>>

Next ==
    \/ connect
    \/ get_device_information
    \/ get_profiles
    \/ get_stream_uri
    \/ get_snapshot_uri
    \/ move_ptz
    \/ stop_ptz
    \/ get_capabilities
    \/ DeviceChangesProfiles

Spec == Init /\ [][Next]_vars

\* The capabilities alone: a device that may leave out any of the six
\* elements, and the two methods that touch the device service.
InitCaps ==
    /\ host = "192.168.1.100"
    /\ port = 80
    /\ username = "admin"
    /\ password = "password"
    /\ camera = NoCamera
    /\ media_service = NoHandle
    /\ ptz_service = NoHandle
    /\ device_service = NoHandle
    /\ devProfiles = <<"P1", "P2">>
    /\ devCaps \in SUBSET CapNames
    /\ connects = <<>>
    /\ op = "__init__"
    /\ arg = NoToken
    /\ calls = <<>>
    /\ ret = NoneV
    /\ escaped = FALSE
    /\ err = "none"
    /\ log = <<>>
    /\ threads = [t \in Threads |-> IdleThread]

NextCaps ==
    \/ connect
    \/ get_capabilities

SpecCaps == InitCaps /\ [][NextCaps]_vars

(* ======================================================================= *)
(* The properties                                                          *)
(* ======================================================================= *)
NonConnectOps ==
    {"get_device_information", "get_profiles", "get_stream_uri",
     "get_snapshot_uri", "move_ptz", "stop_ptz", "get_capabilities"}

TokenOps == {"get_stream_uri", "get_snapshot_uri", "move_ptz", "stop_ptz"}

BoolOps == {"connect", "move_ptz", "stop_ptz"}

\* the value an operation returns when it fails
FailureValue(o) == IF o \in BoolOps THEN FalseV ELSE NoneV

IsFailure(o, v) == v.type = FailureValue(o).type /\ v.val = FailureValue(o).val

\* the service handle an operation calls its request on
TargetService(o) ==
    CASE o \in {"get_device_information", "get_capabilities"} -> device_service
      [] o \in {"get_profiles", "get_stream_uri", "get_snapshot_uri"} -> media_service
      [] o \in {"move_ptz", "stop_ptz"} -> ptz_service

Reqs(cs) == {cs[i].req : i \in DOMAIN cs}

Created(cs, what) == \E i \in DOMAIN cs : cs[i].req = what /\ cs[i].outcome = "ok"

Count(cs, what) == Cardinality({i \in DOMAIN cs : cs[i].req = what})

\* C1: a non-connect operation whose target service handle is unset returns
\* its failure value (None or False) and issues no request at all, not even
\* the GetProfiles that resolves a default token.
C1_UnsetServiceNoRequest ==
    (op \in NonConnectOps /\ TargetService(op) = NoHandle)
        => (IsFailure(op, ret) /\ ~escaped /\ calls = <<>>)

\* move_ptz after a connect() that returned True although PTZ creation failed
C1_Witness ==
    /\ op = "move_ptz"
    /\ connState = "Connected"
    /\ ptz_service = NoHandle
    /\ media_service # NoHandle
    /\ arg = NoToken
    /\ calls = <<>>

\* C2: a non-connect operation on an instance that is not Connected
\* (connect() never called, or the most recent connect() returned False)
\* fails and issues no request.
C2_RequiresConnected ==
    (op \in NonConnectOps /\ connState # "Connected")
        => (IsFailure(op, ret) /\ calls = <<>>)

\* C3: connect() returns True iff the proxy, the device service and the
\* media service are all created; the proxy is built from exactly the stored
\* host, port, username, password; device and media are created once each;
\* a failure of PTZ creation alone leaves connect() True with ptz_service
\* unset and the other two handles set.
C3_ConnectResult ==
    op = "connect" =>
        /\ ~escaped
        /\ ret.type = "bool"
        /\ (ret = TrueV <=> /\ Created(calls, "ONVIFCamera")
                            /\ Created(calls, "create_devicemgmt_service")
                            /\ Created(calls, "create_media_service"))
        /\ Count(calls, "ONVIFCamera") = 1
        /\ Count(calls, "create_devicemgmt_service") <= 1
        /\ Count(calls, "create_media_service") <= 1
        /\ ret = TrueV => /\ Count(calls, "create_devicemgmt_service") = 1
                          /\ Count(calls, "create_media_service") = 1
        /\ Created(calls, "ONVIFCamera") =>
              camera = [id |-> Len(connects), host |-> host, port |-> port,
                        username |-> username, password |-> password]
        /\ (ret = TrueV /\ ~Created(calls, "create_ptz_service")) =>
              /\ ptz_service = NoHandle
              /\ device_service = [cam |-> camera.id, svc |-> "devicemgmt"]
              /\ media_service = [cam |-> camera.id, svc |-> "media"]

\* a connect() that returned True although create_ptz_service raised
C3_Witness ==
    /\ op = "connect"
    /\ ret = TrueV
    /\ \E i \in DOMAIN calls :
          calls[i].req = "create_ptz_service" /\ calls[i].outcome # "ok"
    /\ ptz_service = NoHandle
    /\ device_service # NoHandle
    /\ media_service # NoHandle

\* C4: Failed is terminal: once connect() has returned False, nothing
\* brings the instance to Connected again.
C4_FailedIsTerminal ==
    [][connState = "Failed" => connState' # "Connected"]_vars

\* C4 as amended: Failed is left, and only by a further connect() that
\* returns True; that connect() builds a new proxy and a device and a media
\* handle on it.
C4_FailedLeftOnlyByConnect ==
    [][(connState = "Failed" /\ connState' = "Connected") =>
          /\ op' = "connect"
          /\ ret' = TrueV
          /\ camera'.id = Len(connects')
          /\ camera'.id # camera.id
          /\ device_service' = [cam |-> camera'.id, svc |-> "devicemgmt"]
          /\ media_service' = [cam |-> camera'.id, svc |-> "media"]]_vars

\* a connect() that returned True after one that returned False part-way
C4_Witness ==
    /\ connects = <<"False", "True">>
    /\ op = "connect"
    /\ camera.id = 2
    /\ device_service.cam = 2

TokenRequests == {"GetStreamUri", "GetSnapshotUri", "ContinuousMove", "Stop"}

\* C5: with the profile token omitted, the ProfileToken of the request is
\* the token of the first entry of the list a GetProfiles of the same
\* invocation returned, which is the device's list at that time.
C5_DefaultTokenFirstOfFreshList ==
    [][(/\ devProfiles' = devProfiles
        /\ op' \in TokenOps
        /\ arg' = NoToken
        /\ Reqs(calls') \cap TokenRequests # {}) =>
          /\ Len(calls') = 2
          /\ calls'[1].req = "GetProfiles"
          /\ calls'[1].outcome = "ok"
          /\ calls'[1].resp = devProfiles
          /\ devProfiles # <<>>
          /\ calls'[2].req \in TokenRequests
          /\ calls'[2].token = devProfiles[1]]_vars

\* the device lists [P2, P1] and a default-token stop_ptz used P2
C5_Witness ==
    /\ op = "stop_ptz"
    /\ arg = NoToken
    /\ Len(calls) = 2
    /\ calls[1].resp = <<"P2", "P1">>
    /\ calls[2].req = "Stop"
    /\ calls[2].token = "P2"

\* C6: against a device whose capabilities response lacks the PTZ element
\* (get_capabilities() reports PTZ = false), move_ptz never succeeds and
\* never issues a ContinuousMove.
C6_NoPtzCapabilityNoMove ==
    (op = "move_ptz" /\ "PTZ" \notin devCaps)
        => (IsFailure(op, ret) /\ "ContinuousMove" \notin Reqs(calls))

Failed == err # "none"

FaultLines ==
    {"SOAP Fault while " \o w :
        w \in {"getting device info", "getting profiles", "getting stream URI",
               "getting snapshot URI", "moving PTZ", "stopping PTZ",
               "getting capabilities"}}

C8_NoExceptionEscapes ==
    /\ ~escaped
    /\ op \in BoolOps => ret.type = "bool"
    /\ (\E i \in DOMAIN calls :
           calls[i].outcome # "ok" /\ calls[i].req # "create_ptz_service")
         => IsFailure(op, ret)

\* move_ptz whose default-token GetProfiles met a transport failure
C8_Witness ==
    /\ op = "move_ptz"
    /\ arg = NoToken
    /\ Len(calls) = 1
    /\ calls[1].req = "GetProfiles"
    /\ calls[1].outcome = "TransportError"
    /\ ret = FalseV
    /\ ~escaped

\* C9: within one invocation each kind of request is issued at most once
\* (each service is created once), and a request that failed is the last
\* one of the invocation.
C9_NoRetry ==
    \A i, j \in DOMAIN calls :
        /\ i # j => calls[i].req # calls[j].req
        /\ calls[i].outcome # "ok" => i = Len(calls)

\* get_stream_uri stopped after its GetProfiles got a SOAP Fault
C9_Witness ==
    /\ op = "get_stream_uri"
    /\ arg = NoToken
    /\ Len(calls) = 1
    /\ calls[1].req = "GetProfiles"
    /\ calls[1].outcome = "Fault"
    /\ ret = NoneV

C11_CapabilitiesFromPresence ==
    (op = "get_capabilities" /\ Created(calls, "GetCapabilities")) =>
        /\ ~escaped
        /\ err = "none"
        /\ ret.type = "dict"
        /\ DOMAIN ret.val = {"Analytics", "Device", "Events", "Imaging", "Media", "PTZ"}
        /\ \A k \in DOMAIN ret.val : ret.val[k] = (k \in devCaps)

\* a device answering with the Device and Media elements only
C11_Witness ==
    /\ op = "get_capabilities"
    /\ Created(calls, "GetCapabilities")
    /\ devCaps = {"Device", "Media"}
    /\ ret.type = "dict"
    /\ ret.val["Media"]
    /\ ~ret.val["PTZ"]
    /\ ~ret.val["Analytics"]

\* C12: every non-connect operation, succeeding or failing, leaves host,
\* port, username, password, camera and the three service handles as they
\* were; move_ptz and stop_ptz record nothing locally.  Only connect()
\* writes client state, and it never writes the four constructor arguments.
C12_OnlyConnectWritesClient ==
    [][/\ op' # "connect" => client' = client
       /\ connects' = connects => client' = client
       /\ <<host, port, username, password>>' = <<host, port, username, password>>]_vars

\* a move_ptz that went through on a client with all handles set
C12_Witness ==
    /\ op = "move_ptz"
    /\ ret = TrueV
    /\ Created(calls, "ContinuousMove")
    /\ camera # NoCamera
    /\ ptz_service = [cam |-> camera.id, svc |-> "ptz"]
    /\ media_service = [cam |-> camera.id, svc |-> "media"]

\* C14: every service handle that is set was created from the camera proxy
\* now held in the camera field, after any sequence of connect() calls
\* (successful, failed or partial) and other operations.
C14_HandlesFromCurrentCamera ==
    \A h \in {device_service, media_service, ptz_service} :
        h # NoHandle => (camera # NoCamera /\ h.cam = camera.id)

(* ======================================================================= *)
(* Concurrent callers of the read-only methods.  A caller advances one     *)
(* read of self.* or one library call at a time; its profile_token,        *)
(* profiles and result are locals of its own frame.                        *)
(* ======================================================================= *)
ReadOnlyOps ==
    {"get_device_information", "get_capabilities", "get_profiles",
     "get_stream_uri", "get_snapshot_uri"}

others == <<client, device, connects, op, arg, calls, ret, escaped, err, log>>

\* the logger.error of a method's "if not self.<service>" branch
GuardLog(o) ==
    IF o \in {"get_device_information", "get_capabilities"}
    THEN "Device service not initialized"
    ELSE "Media service not initialized"

\* the text after "SOAP Fault while " / "Error " in a method's except clauses
What(o) ==
    CASE o = "get_device_information" -> "getting device info"
      [] o = "get_capabilities" -> "getting capabilities"
      [] o = "get_profiles" -> "getting profiles"
      [] o = "get_stream_uri" -> "getting stream URI"
      [] o = "get_snapshot_uri" -> "getting snapshot URI"

ExceptLine(exc, what) ==
    IF exc = "Fault" THEN "SOAP Fault while " \o what ELSE "Error " \o what

\* the request a method sends, and what it returns and logs when answered
RequestOf(o) ==
    CASE o = "get_device_information" -> "GetDeviceInformation"
      [] o = "get_capabilities" -> "GetCapabilities"
      [] o = "get_profiles" -> "GetProfiles"
      [] o = "get_stream_uri" -> "GetStreamUri"
      [] o = "get_snapshot_uri" -> "GetSnapshotUri"

AnswerOf(o, token) ==
    CASE o = "get_device_information" ->
            [val |-> DictV([Manufacturer |-> devInfo.Manufacturer,
                            Model |-> devInfo.Model,
                            FirmwareVersion |-> devInfo.FirmwareVersion,
                            SerialNumber |-> devInfo.SerialNumber,
                            HardwareId |-> devInfo.HardwareId]),
             log |-> "Device info retrieved"]
      [] o = "get_capabilities" ->
            [val |-> DictV(caps_dict(devCaps)), log |-> "Device capabilities retrieved"]
      [] o = "get_profiles" ->
            [val |-> ListV(devProfiles), log |-> "Retrieved media profiles"]
      [] o = "get_stream_uri" ->
            [val |-> StrV(StreamUri(token)), log |-> "Stream URI retrieved"]
      [] o = "get_snapshot_uri" ->
            [val |-> StrV(SnapshotUri(token)), log |-> "Snapshot URI retrieved"]

\* "self.profiles = self.get_profiles()": the list kept on the instance,
\* which every caller shares
StoreProfiles_OnInstance(th, t, v) ==
    [u \in DOMAIN th |-> [th[u] EXCEPT !.profiles = v]]

\* "profiles = self.get_profiles()": a local of the calling frame
StoreProfiles(th, t, v) == [th EXCEPT ![t].profiles = v]

\* a caller enters one of the read-only methods of a Connected client
T_Start ==
    /\ connState = "Connected"
    /\ \E t \in Threads, o \in ReadOnlyOps :
       \E tok \in (IF o \in TokenOps THEN Tokens \cup {NoToken} ELSE {NoToken}) :
         /\ threads[t].pc = "idle"
         /\ threads' = [threads EXCEPT ![t] =
                [IdleThread EXCEPT !.pc = "guard", !.op = o, !.arg = tok, !.token = tok]]
    /\ UNCHANGED others

\* "if not self.<service>: logger.error(...); return None"
T_Guard ==
    /\ \E t \in Threads :
         LET th == threads[t]
         IN  /\ th.pc = "guard"
             /\ threads' = [threads EXCEPT ![t] =
                    IF ~IsSet(TargetService(th.op))
                    THEN [th EXCEPT !.pc = "done", !.ret = NoneV,
                                    !.err = "ServiceUnavailable",
                                    !.log = <<GuardLog(th.op)>>]
                    ELSE [th EXCEPT !.pc = IF th.op \in TokenOps
                                           THEN "resolve" ELSE "request"]]
    /\ UNCHANGED others

\* "if profile_token is None:"
T_Resolve ==
    /\ \E t \in Threads :
         /\ threads[t].pc = "resolve"
         /\ threads' = [threads EXCEPT ![t].pc =
                IF threads[t].arg = NoToken THEN "gp_guard" ELSE "request"]
    /\ UNCHANGED others

\* the guard of the get_profiles() called for the default token
T_GpGuard ==
    /\ \E t \in Threads :
         LET th == threads[t]
         IN  /\ th.pc = "gp_guard"
             /\ threads' =
                  IF ~IsSet(media_service)
                  THEN StoreProfiles(
                         [threads EXCEPT ![t] =
                             [th EXCEPT !.pc = "check", !.err = "ServiceUnavailable",
                                        !.log = Append(th.log, GuardLog("get_profiles"))]],
                         t, NoneV)
                  ELSE [threads EXCEPT ![t].pc = "gp_call"]
    /\ UNCHANGED others

\* its GetProfiles, its except clauses, and the assignment of its result
T_GpCall ==
    /\ \E t \in Threads, o \in Outcomes :
         LET th == threads[t]
             c == Call("GetProfiles", media_service, NoToken, <<>>, o,
                       IF o = "ok" THEN devProfiles ELSE <<>>)
         IN  /\ th.pc = "gp_call"
             /\ threads' =
                  IF o = "ok"
                  THEN StoreProfiles(
                         [threads EXCEPT ![t] =
                             [th EXCEPT !.pc = "check", !.calls = Append(th.calls, c),
                                        !.log = Append(th.log, "Retrieved media profiles")]],
                         t, ListV(devProfiles))
                  ELSE StoreProfiles(
                         [threads EXCEPT ![t] =
                             [th EXCEPT !.pc = "check", !.calls = Append(th.calls, c),
                                        !.err = o,
                                        !.log = Append(th.log,
                                                       ExceptLine(o, What("get_profiles")))]],
                         t, NoneV)
    /\ UNCHANGED others

\* "if not profiles: ... return None" / "profile_token = profiles[0].token"
T_Check ==
    /\ \E t \in Threads :
         LET th == threads[t]
         IN  /\ th.pc = "check"
             /\ threads' = [threads EXCEPT ![t] =
                    IF ~Truthy(th.profiles)
                    THEN [th EXCEPT !.pc = "done", !.ret = NoneV,
                                    !.err = IF th.err = "none" THEN "NoProfiles" ELSE th.err,
                                    !.log = Append(th.log, "No profiles available")]
                    ELSE [th EXCEPT !.pc = "request", !.err = "none",
                                    !.token = FirstToken(th.profiles)]]
    /\ UNCHANGED others

\* the method's own request, its result or its except clauses
T_Request ==
    /\ \E t \in Threads, o \in Outcomes :
         LET th == threads[t]
             c == Call(RequestOf(th.op), TargetService(th.op), th.token,
                       IF th.op = "get_stream_uri" THEN <<"RTP-Unicast", "RTSP">> ELSE <<>>,
                       o,
                       IF th.op = "get_profiles" /\ o = "ok" THEN devProfiles ELSE <<>>)
             a == AnswerOf(th.op, th.token)
         IN  /\ th.pc = "request"
             /\ threads' = [threads EXCEPT ![t] =
                    IF o = "ok"
                    THEN [th EXCEPT !.pc = "done", !.calls = Append(th.calls, c),
                                    !.ret = a.val, !.err = "none",
                                    !.log = Append(th.log, a.log)]
                    ELSE [th EXCEPT !.pc = "done", !.calls = Append(th.calls, c),
                                    !.ret = NoneV, !.err = o,
                                    !.log = Append(th.log, ExceptLine(o, What(th.op)))]]
    /\ UNCHANGED others

\* the caller has its result and leaves the method
T_Return ==
    /\ \E t \in Threads :
         /\ threads[t].pc = "done"
         /\ threads' = [threads EXCEPT ![t] = IdleThread]
    /\ UNCHANGED others

\* connect() is no read-only method: it runs while no caller is in one
ConnectAlone ==
    /\ \A t \in Threads : threads[t].pc = "idle"
    /\ connect

NextConc ==
    \/ ConnectAlone
    \/ T_Start
    \/ T_Guard
    \/ T_Resolve
    \/ T_GpGuard
    \/ T_GpCall
    \/ T_Check
    \/ T_Request
    \/ T_Return

\* one instance and one device answering all six capability elements; the
\* profile list is any of the device's
InitConc ==
    /\ Init
    /\ host = "192.168.1.100"
    /\ devCaps = CapNames

SpecConc == InitConc /\ [][NextConc]_vars

\* the calls a finished caller made, read as the answers the device gave it
OutcomeOf(cs, what) ==
    IF \E i \in DOMAIN cs : cs[i].req = what
    THEN (CHOOSE c \in {cs[i] : i \in DOMAIN cs} : c.req = what).outcome
    ELSE "ok"

\* what the caller's method returns when run alone against those answers
Alone(th) ==
    CASE th.op = "get_device_information" ->
            get_device_information_run(OutcomeOf(th.calls, "GetDeviceInformation"))
      [] th.op = "get_capabilities" ->
            get_capabilities_run(OutcomeOf(th.calls, "GetCapabilities"))
      [] th.op = "get_profiles" ->
            get_profiles_run(OutcomeOf(th.calls, "GetProfiles"))
      [] th.op = "get_stream_uri" ->
            get_stream_uri_run(th.arg, OutcomeOf(th.calls, "GetProfiles"),
                               OutcomeOf(th.calls, "GetStreamUri"))
      [] th.op = "get_snapshot_uri" ->
            get_snapshot_uri_run(th.arg, OutcomeOf(th.calls, "GetProfiles"),
                                 OutcomeOf(th.calls, "GetSnapshotUri"))

SameResult(th, r) ==
    /\ r.status = "return"
    /\ th.calls = r.calls
    /\ th.err = r.err
    /\ th.log = r.log
    /\ th.ret.type = r.val.type
    /\ th.ret.val = r.val.val

\* a caller that has finished holds what its method gives alone
AsAlone(t) ==
    threads[t].pc = "done" => SameResult(threads[t], Alone(threads[t]))

\* C13: under every interleaving of the steps of concurrent read-only
\* invocations on a Connected client, no step of a caller changes the
\* client's state (or the device's), and each finished invocation has made
\* the requests and returned the result it would have alone against the
\* same device answers.
C13_ConcurrentReadsSafe ==
    /\ [][threads' # threads => (client' = client /\ device' = device)]_vars
    /\ [](\A t \in Threads : AsAlone(t))

\* two callers inside methods at once: one finished a default-token
\* get_stream_uri while the other is between its GetProfiles and its request
C13_Witness ==
    /\ threads["A"].pc = "done"
    /\ threads["A"].op = "get_stream_uri"
    /\ threads["A"].arg = NoToken
    /\ threads["A"].ret.type = "str"
    /\ threads["B"].pc = "check"
    /\ threads["B"].op = "get_snapshot_uri"
    /\ threads["B"].profiles = NoneV

====
